---- MODULE Spec2Model ----
(***************************************************************************)
(* The chat room: the Hub event loop (hub.Hub.Run), the per-connection     *)
(* Client with its two pumps (client.readPump, client.writePump), the      *)
(* transport handler (main.serveWs) and the message store.                  *)
(*                                                                         *)
(* Identities are the numbers 1..NumNames, ordered as the strings they     *)
(* stand for are ordered by sort.Strings; 0 is the empty string.           *)
(***************************************************************************)
EXTENDS Naturals, Sequences, FiniteSets, TLC

\* ---------------------------------------------------------------- bounds
NumConns == 2       \* connections the transport accepts in one run
NumNames == 2       \* distinct display names a connection may claim
MaxReads == 1       \* units read from all connections together
MaxApiCalls == 2    \* calls an outside caller makes on the Hub's interface
MaxFaults == 1      \* failures of the store and of the transport's writes

\* ------------------------------------------------------ program constants
SendCap == 4        \* capacity of Client.send (256 in the source), scaled
HistLimit == 2      \* GetMessages(50) in Hub.Run, scaled: a replay fits a queue
TicksPerSec == 2    \* the clock's ticks in one second

Conns == 1..NumConns
Names == 1..NumNames
Guest == 1          \* the placeholder identity serveWs uses for an empty name

\* ---------------------------------------------------------------- helpers
Range(s) == {s[i] : i \in DOMAIN s}

Last(s) == s[Len(s)]

\* All the orders in which a range over a Go map may visit the key set S.
Orders(S) ==
  {o \in [1..Cardinality(S) -> S] : \A i, j \in 1..Cardinality(S) : i # j => o[i] # o[j]}

RECURSIVE InsertSorted(_, _)
InsertSorted(s, x) ==
  IF s = <<>> THEN <<x>>
  ELSE IF x <= Head(s) THEN <<x>> \o s
  ELSE <<Head(s)>> \o InsertSorted(Tail(s), x)

\* sort.Strings: the ascending arrangement of the sequence s.
RECURSIVE SortStrings(_)
SortStrings(s) ==
  IF s = <<>> THEN <<>> ELSE InsertSorted(SortStrings(Tail(s)), Head(s))

\* a is an order-preserving subsequence of b (each element of b used once).
RECURSIVE IsSubseq(_, _)
IsSubseq(a, b) ==
  IF a = <<>> THEN TRUE
  ELSE IF b = <<>> THEN FALSE
  ELSE IF Head(a) = Head(b) THEN IsSubseq(Tail(a), Tail(b))
  ELSE IsSubseq(a, Tail(b))

\* --------------------------------------------------------------- messages
\* models.Message; the zero value of every field is 0, "" or <<>>.
Message(type, username, content, timestamp, users, error) ==
  [type |-> type, username |-> username, content |-> content,
   timestamp |-> timestamp, users |-> users, error |-> error]

\* Content is a pair <<identity, text>>: the Hub's notices are built from the
\* identity ("<name> joined"), a client's text names nobody.
NoContent == <<0, "">>
ZeroMessage == Message("", 0, NoContent, 0, <<>>, "")

\* A payload ([]byte) is what it decodes to together with how it is written:
\* "json" is the text json.Marshal produces, "alt" any other JSON text of the
\* same object (other spacing, field order, unknown fields), "garbage" is
\* text that is no JSON object.
Payload(form, msg) == [form |-> form, msg |-> msg]

Garbage == Payload("garbage", ZeroMessage)

\* json.Marshal of a Message: always the canonical text.
Marshal(msg) == Payload("json", msg)

\* Mutant: every text decodes, garbage into the zero Message.
UnmarshalOkAlways(p) == TRUE

\* json.Unmarshal into a Message: fails on garbage, else yields the object.
UnmarshalOk(p) == p.form # "garbage"
Unmarshal(p) == p.msg

ErrorMessage == Message("error", 0, NoContent, 0, <<>>, "name taken")
JoinMessage(name, now) == Message("join", name, <<name, "joined">>, now, <<>>, "")
LeaveMessage(name, now) == Message("leave", name, <<name, "left">>, now, <<>>, "")
UserListMessage(userList) == Message("user_list", 0, NoContent, 0, userList, "")

\* ------------------------------------------------------------------ state
VARIABLES
  username,    \* Client.username of each connection's Client (0: none yet)
  stage,       \* serveWs of each connection: "idle", "registering", "served"
  send,        \* Client.send: the buffered channel's contents
  connClosed,  \* Client.conn has been closed by this process
  rp,          \* readPump: "off", "read", "bcast", "unreg", "close", "done"
  rpMsg,       \* the payload readPump is handing to Hub.Broadcast
  wp,          \* writePump: "off", "wait", "done"
  wire,        \* the payloads writePump transmitted, in order
  clients,     \* Hub.clients: identity -> connection (0: no entry)
  db,          \* the rows of the messages table, in insertion order
  clock,       \* the next value time.Now() returns
  enq,         \* every payload the Hub passed to SendMessage, per client
  reads,       \* units read so far
  apiUnreg,    \* outside callers blocked in Hub.Unregister
  apiBcast,    \* payloads of outside callers blocked in Hub.Broadcast
  apiCalls,    \* calls outside callers made so far
  faults,      \* store and write failures so far
  unregs       \* unregister events the Hub handled, per client

vars == <<username, stage, send, connClosed, rp, rpMsg, wp, wire,
          clients, db, clock, enq, reads, apiUnreg, apiBcast, apiCalls, faults, unregs>>

\* NewHub, and no connection accepted yet.
Init ==
  /\ username = [c \in Conns |-> 0]
  /\ stage = [c \in Conns |-> "idle"]
  /\ send = [c \in Conns |-> <<>>]
  /\ connClosed = [c \in Conns |-> FALSE]
  /\ rp = [c \in Conns |-> "off"]
  /\ rpMsg = [c \in Conns |-> Garbage]
  /\ wp = [c \in Conns |-> "off"]
  /\ wire = [c \in Conns |-> <<>>]
  /\ clients = [n \in Names |-> 0]
  /\ db = <<>>
  /\ clock = 1
  /\ enq = [c \in Conns |-> <<>>]
  /\ reads = 0
  /\ apiUnreg = {}
  /\ apiBcast = {}
  /\ apiCalls = 0
  /\ faults = 0
  /\ unregs = [c \in Conns |-> 0]


\* ------------------------------------------------------------------ store
\* time.Time.Format(time.RFC3339Nano) of the instant t, in UTC: the seconds in
\* fixed width, then the fraction with its trailing zeros cut (nothing at all
\* for a whole second), then "Z".
Format(t) == [sec |-> t \div TicksPerSec, frac |-> t % TicksPerSec]

\* time.Parse(time.RFC3339Nano, text)
Parse(f) == f.sec * TicksPerSec + f.frac

\* The byte-wise order of two formatted instants, which is how ORDER BY
\* compares the text in the timestamp column: "." sorts before "Z", so within
\* one second a text with a fraction sorts before the text without one.
TextLess(a, b) ==
  \/ a.sec < b.sec
  \/ /\ a.sec = b.sec
     /\ a.frac # 0
     /\ (b.frac = 0 \/ a.frac < b.frac)

Persistable(type) == type \in {"chat", "join", "leave"}

\* SQLiteMessageStore.SaveMessage; ok is whether the INSERT succeeds.
SaveMessage(rows, msg, ok) ==
  IF ~Persistable(msg.type) \/ ~ok THEN rows
  ELSE Append(rows, [type |-> msg.type, username |-> msg.username,
                     content |-> msg.content, timestamp |-> Format(msg.timestamp)])

RECURSIVE InsertDesc(_, _)
InsertDesc(s, r) ==
  IF s = <<>> THEN <<r>>
  ELSE IF TextLess(Head(s).timestamp, r.timestamp) THEN <<r>> \o s
  ELSE <<Head(s)>> \o InsertDesc(Tail(s), r)

\* ORDER BY timestamp DESC; rows with equal text stay in insertion order.
RECURSIVE OrderByDesc(_)
OrderByDesc(rows) ==
  IF rows = <<>> THEN <<>>
  ELSE InsertDesc(OrderByDesc(SubSeq(rows, 1, Len(rows) - 1)), Last(rows))

Reverse(s) == [i \in 1..Len(s) |-> s[Len(s) + 1 - i]]

RowMessage(r) == Message(r.type, r.username, r.content, Parse(r.timestamp), <<>>, "")

\* Mutant: the query has no LIMIT, every row comes back.
GetMessagesNoLimit(rows, limit) ==
  LET desc == OrderByDesc(rows)
  IN Reverse([i \in 1..Len(desc) |-> RowMessage(desc[i])])

\* SQLiteMessageStore.GetMessages: the limit first rows of the descending
\* order, reversed.
GetMessages(rows, limit) ==
  LET desc == OrderByDesc(rows)
      top == SubSeq(desc, 1, IF Len(desc) < limit THEN Len(desc) ELSE limit)
  IN Reverse([i \in 1..Len(top) |-> RowMessage(top[i])])

\* ----------------------------------------------------------------- client
\* Mutant: a plain channel send, which waits while the channel is full.
SendBlocksWhenFull(q) == Len(q) >= SendCap

\* Client.SendMessage: a select with a default case, so it never waits; a
\* full channel drops the payload.
SendBlocks(q) == FALSE

\* Mutant: a full queue makes room by giving up its oldest payload.
SendMessageDropsOldest(q, p) ==
  IF Len(q) < SendCap THEN Append(q, p) ELSE Append(Tail(q), p)

\* Mutant: the payload goes to the front of the queue.
SendMessageInFront(q, p) == IF Len(q) < SendCap THEN <<p>> \o q ELSE q

SendMessage(q, p) == IF Len(q) < SendCap THEN Append(q, p) ELSE q

RECURSIVE SendAll(_, _)
SendAll(q, ps) == IF ps = <<>> THEN q ELSE SendAll(SendMessage(q, Head(ps)), Tail(ps))

\* -------------------------------------------------------------------- hub
Registered(reg) == {reg[n] : n \in Names} \ {0}
Online(reg) == {n \in Names : reg[n] # 0}

\* Mutant: the list is sent in the order the map was visited.
UserListPayloadUnsorted(order) == Marshal(UserListMessage(order))

\* Hub.SendUserListToAllClients: the payload built from the keys of the
\* registry, visited in the order `order` and then sorted.
UserListPayload(order) == Marshal(UserListMessage(SortStrings(order)))

\* Mutant: the uniqueness check is missing.
ConflictNever(reg, name) == FALSE

\* Hub.Run, register: is the identity taken?
Conflict(reg, name) == reg[name] # 0

\* Mutant: the Hub never finds the client it is asked to remove.
PresentNever(reg, name) == FALSE

\* Mutant: the Hub does not look whether the identity is still registered.
PresentAlways(reg, name) == TRUE

\* Hub.Run, unregister: is the identity in the registry?
Present(reg, name) == reg[name] # 0

\* What the Hub passes to SendMessage of client c when it accepts cl: the
\* history to cl alone, then the join notice and the user list to every
\* client in the registry.
RegisterSends(c, cl, reg, history, jsonMsg, order) ==
  (IF c = cl THEN [i \in 1..Len(history) |-> Marshal(history[i])] ELSE <<>>)
  \o (IF c \in Registered(reg) THEN <<jsonMsg>> ELSE <<>>)
  \o (IF c \in Registered(reg) THEN <<UserListPayload(order)>> ELSE <<>>)

\* Mutant: the user list goes out before the leave notice.
UnregisterSendsListFirst(c, reg, jsonMsg, order) ==
  IF c \in Registered(reg) THEN <<UserListPayload(order), jsonMsg>> ELSE <<>>

\* What the Hub passes to SendMessage of client c when it removed a client:
\* the leave notice and the user list to every client left in the registry.
UnregisterSends(c, reg, jsonMsg, order) ==
  IF c \in Registered(reg) THEN <<jsonMsg, UserListPayload(order)>> ELSE <<>>

\* Mutant: the Hub forwards its own encoding of what it decoded.
BroadcastSendsReencoded(c, reg, message) ==
  IF c \in Registered(reg) THEN <<Marshal(Unmarshal(message))>> ELSE <<>>

\* What the Hub passes to SendMessage of client c for a broadcast: the bytes
\* it received, to every client in the registry.
BroadcastSends(c, reg, message) ==
  IF c \in Registered(reg) THEN <<message>> ELSE <<>>

\* Hub.Run, case cl := <-h.register
HandleRegister(cl, order, getOk, saveOk) ==
  LET name == username[cl] IN
  IF Conflict(clients, name)
  THEN /\ send' = [send EXCEPT ![cl] = SendMessage(@, Marshal(ErrorMessage))]
       /\ enq' = [enq EXCEPT ![cl] = Append(@, Marshal(ErrorMessage))]
       /\ connClosed' = [connClosed EXCEPT ![cl] = TRUE]
       /\ UNCHANGED <<clients, db, clock, rp, wp>>
  ELSE \E history \in {IF getOk THEN GetMessages(db, HistLimit) ELSE <<>>} :
       LET reg == [clients EXCEPT ![name] = cl]
           joinMsg == JoinMessage(name, clock)
           sends(c) == RegisterSends(c, cl, reg, history, Marshal(joinMsg), order)
       IN /\ order \in Orders(Online(reg))
          /\ clients' = reg
          /\ rp' = [rp EXCEPT ![cl] = "read"]
          /\ wp' = [wp EXCEPT ![cl] = "wait"]
          /\ db' = SaveMessage(db, joinMsg, saveOk)
          /\ clock' = clock + 1
          /\ send' = [c \in Conns |-> SendAll(send[c], sends(c))]
          /\ enq' = [c \in Conns |-> enq[c] \o sends(c)]
          /\ UNCHANGED connClosed

\* Hub.Run, case cl := <-h.unregister
HandleUnregister(cl, order, saveOk) ==
  LET name == username[cl] IN
  IF Present(clients, name)
  THEN LET reg == [clients EXCEPT ![name] = 0]
           leaveMsg == LeaveMessage(name, clock)
           sends(c) == UnregisterSends(c, reg, Marshal(leaveMsg), order)
       IN /\ order \in Orders(Online(reg))
          /\ clients' = reg
          /\ db' = SaveMessage(db, leaveMsg, saveOk)
          /\ clock' = clock + 1
          /\ send' = [c \in Conns |-> SendAll(send[c], sends(c))]
          /\ enq' = [c \in Conns |-> enq[c] \o sends(c)]
  ELSE UNCHANGED <<clients, db, clock, send, enq>>

\* Mutant: a payload that could not be stored is not forwarded.
HandleBroadcastFailClosed(message, saveOk) ==
  IF ~UnmarshalOk(message) \/ ~saveOk
  THEN UNCHANGED <<clients, db, clock, send, enq>>
  ELSE LET sends(c) == BroadcastSends(c, clients, message)
       IN /\ db' = SaveMessage(db, Unmarshal(message), saveOk)
          /\ send' = [c \in Conns |-> SendAll(send[c], sends(c))]
          /\ enq' = [c \in Conns |-> enq[c] \o sends(c)]
          /\ UNCHANGED <<clients, clock>>

\* Hub.Run, case message := <-h.broadcast
HandleBroadcast(message, saveOk) ==
  IF ~UnmarshalOk(message)
  THEN UNCHANGED <<clients, db, clock, send, enq>>
  ELSE LET sends(c) == BroadcastSends(c, clients, message)
       IN /\ db' = SaveMessage(db, Unmarshal(message), saveOk)
          /\ send' = [c \in Conns |-> SendAll(send[c], sends(c))]
          /\ enq' = [c \in Conns |-> enq[c] \o sends(c)]
          /\ UNCHANGED <<clients, clock>>

\* The Hub loop takes the next event only between two handlers, and no call
\* a handler makes can make it wait.
HubReady == \A c \in Conns : ~SendBlocks(send[c])


\* ---------------------------------------------------------------- actions
\* An operation of the store or of the transport may fail (ok = FALSE) while
\* the run's failures are not used up.
Failing(oks) == Cardinality({i \in DOMAIN oks : ~oks[i]})
MayFail(oks) ==
  /\ faults + Failing(oks) <= MaxFaults
  /\ faults' = faults + Failing(oks)

\* Mutant: the constructor starts the two pumps itself.
NewClientRunsPumps == [rp |-> "read", wp |-> "wait"]

\* NewClient: where the pumps of a new Client are; the constructor makes the
\* Client and starts no goroutine.
NewClient == [rp |-> "off", wp |-> "off"]

\* main.serveWs up to the point where it waits in Hub.Register: the name
\* query (0: empty) becomes the identity and NewClient makes the Client.
ServeWs(c, query) ==
  /\ stage[c] = "idle"
  /\ username' = [username EXCEPT ![c] = IF query = 0 THEN Guest ELSE query]
  /\ rp' = [rp EXCEPT ![c] = NewClient.rp]
  /\ wp' = [wp EXCEPT ![c] = NewClient.wp]
  /\ stage' = [stage EXCEPT ![c] = "registering"]
  /\ UNCHANGED <<send, connClosed, rpMsg, wire, clients, db, clock,
                 enq, reads, apiUnreg, apiBcast, apiCalls, faults, unregs>>

\* The Hub receives from h.register and handles the event; serveWs returns.
HubRegister(c) ==
  /\ stage[c] = "registering"
  /\ HubReady
  /\ \E order \in UNION {Orders(S) : S \in SUBSET Names}, getOk, saveOk \in BOOLEAN :
       /\ HandleRegister(c, order, getOk, saveOk)
       /\ MayFail(<<getOk, saveOk>>)
  /\ stage' = [stage EXCEPT ![c] = "served"]
  /\ UNCHANGED <<username, rpMsg, wire, reads, apiUnreg, apiBcast, apiCalls, unregs>>

\* Mutant: readPump forwards the kind and the identity the client wrote.
ParsedMessageTrusted(input, name, now) ==
  Marshal([Unmarshal(input) EXCEPT !.timestamp = now])

\* readPump, lines 89-93: the decoded unit with Username, Timestamp and Type
\* overwritten (the other fields stay as the client wrote them), encoded.
ParsedMessage(input, name, now) ==
  Marshal([Unmarshal(input) EXCEPT !.username = name,
                                   !.timestamp = now,
                                   !.type = "chat"])

\* What a connected browser may send as one unit.
ClientInputs ==
  { Garbage,
    Payload("alt", Message("join", NumNames, <<0, "hi">>, 1, <<Guest>>, "boo")) }

\* readPump: one ReadMessage that returns a unit, up to the call of
\* Hub.Broadcast (an undecodable unit is skipped).
RPRead(c, input) ==
  /\ rp[c] = "read"
  /\ ~connClosed[c]
  /\ reads < MaxReads
  /\ reads' = reads + 1
  /\ IF UnmarshalOk(input)
     THEN /\ rpMsg' = [rpMsg EXCEPT ![c] = ParsedMessage(input, username[c], clock)]
          /\ rp' = [rp EXCEPT ![c] = "bcast"]
          /\ clock' = clock + 1
     ELSE UNCHANGED <<rpMsg, rp, clock>>
  /\ UNCHANGED <<username, stage, send, connClosed, wp, wire, clients, db,
                 enq, apiUnreg, apiBcast, apiCalls, faults, unregs>>

\* Mutant: readPump leaves without telling the Hub.
RPReadErrNoUnregister(c) ==
  /\ rp[c] = "read"
  /\ rp' = [rp EXCEPT ![c] = "close"]
  /\ UNCHANGED <<username, stage, send, connClosed, rpMsg, wp, wire, clients,
                 db, clock, enq, reads, apiUnreg, apiBcast, apiCalls, faults, unregs>>

\* readPump: ReadMessage returns an error (the peer left, the unit was too
\* long, the deadline passed, the connection was closed); the deferred
\* function starts and waits in Hub.Unregister.
RPReadErr(c) ==
  /\ rp[c] = "read"
  /\ rp' = [rp EXCEPT ![c] = "unreg"]
  /\ UNCHANGED <<username, stage, send, connClosed, rpMsg, wp, wire, clients,
                 db, clock, enq, reads, apiUnreg, apiBcast, apiCalls, faults, unregs>>

\* The Hub receives from h.broadcast what readPump of c hands over.
HubBroadcast(c) ==
  /\ rp[c] = "bcast"
  /\ HubReady
  /\ \E saveOk \in BOOLEAN :
       /\ HandleBroadcast(rpMsg[c], saveOk)
       /\ MayFail(<<saveOk>>)
  /\ rp' = [rp EXCEPT ![c] = "read"]
  /\ UNCHANGED <<username, stage, connClosed, rpMsg, wp, wire, reads,
                 apiUnreg, apiBcast, apiCalls, unregs>>

\* Mutant: readPump calls Unregister inside its loop and reads on.
HubUnregisterThenReadOn(c) ==
  /\ rp[c] = "unreg"
  /\ HubReady
  /\ \E order \in UNION {Orders(S) : S \in SUBSET Names}, saveOk \in BOOLEAN :
       /\ HandleUnregister(c, order, saveOk)
       /\ MayFail(<<saveOk>>)
  /\ rp' = [rp EXCEPT ![c] = "read"]
  /\ unregs' = [unregs EXCEPT ![c] = @ + 1]
  /\ UNCHANGED <<username, stage, connClosed, rpMsg, wp, wire, reads,
                 apiUnreg, apiBcast, apiCalls>>

\* The Hub receives from h.unregister what readPump of c sent.
HubUnregister(c) ==
  /\ rp[c] = "unreg"
  /\ HubReady
  /\ \E order \in UNION {Orders(S) : S \in SUBSET Names}, saveOk \in BOOLEAN :
       /\ HandleUnregister(c, order, saveOk)
       /\ MayFail(<<saveOk>>)
  /\ rp' = [rp EXCEPT ![c] = "close"]
  /\ unregs' = [unregs EXCEPT ![c] = @ + 1]
  /\ UNCHANGED <<username, stage, connClosed, rpMsg, wp, wire, reads,
                 apiUnreg, apiBcast, apiCalls>>

\* Mutant: readPump takes its own entry out of the registry when it ends.
RPCloseRemovesEntry(c) ==
  /\ rp[c] = "close"
  /\ rp' = [rp EXCEPT ![c] = "done"]
  /\ connClosed' = [connClosed EXCEPT ![c] = TRUE]
  /\ clients' = [clients EXCEPT ![username[c]] = 0]
  /\ UNCHANGED <<username, stage, send, rpMsg, wp, wire, db, clock,
                 enq, reads, apiUnreg, apiBcast, apiCalls, faults, unregs>>

\* readPump: the deferred c.conn.Close(), after Unregister returned.
RPClose(c) ==
  /\ rp[c] = "close"
  /\ rp' = [rp EXCEPT ![c] = "done"]
  /\ connClosed' = [connClosed EXCEPT ![c] = TRUE]
  /\ UNCHANGED <<username, stage, send, rpMsg, wp, wire, clients, db, clock,
                 enq, reads, apiUnreg, apiBcast, apiCalls, faults, unregs>>

\* writePump, one turn of the loop on a payload from c.send: NextWriter fails
\* on a closed connection and the payload is lost; else the payload and the
\* len(c.send) payloads queued behind it are written and w.Close() sends them,
\* or fails (netOk: the transport's part) and they are lost. A failure ends
\* the loop, and the deferred function closes the connection. (Nothing in
\* the program closes c.send, so the receive never yields ok = false and the
\* branch that writes the close message is never taken.)
WPWrite(c, netOk) ==
  /\ wp[c] = "wait"
  /\ send[c] # <<>>
  /\ MayFail(<<netOk>>)
  /\ IF connClosed[c]
     THEN /\ send' = [send EXCEPT ![c] = Tail(@)]
          /\ wp' = [wp EXCEPT ![c] = "done"]
          /\ UNCHANGED <<wire, connClosed>>
     ELSE /\ send' = [send EXCEPT ![c] = <<>>]
          /\ IF netOk
             THEN /\ wire' = [wire EXCEPT ![c] = @ \o send[c]]
                  /\ UNCHANGED <<wp, connClosed>>
             ELSE /\ wp' = [wp EXCEPT ![c] = "done"]
                  /\ connClosed' = [connClosed EXCEPT ![c] = TRUE]
                  /\ UNCHANGED wire
  /\ UNCHANGED <<username, stage, rp, rpMsg, clients, db, clock, enq, reads,
                 apiUnreg, apiBcast, apiCalls, unregs>>

\* Mutant: writePump returns and leaves the connection open.
WPPingFailNoClose(c) ==
  /\ wp[c] = "wait"
  /\ wp' = [wp EXCEPT ![c] = "done"]
  /\ UNCHANGED <<username, stage, send, connClosed, rp, rpMsg, wire, clients, db,
                 clock, enq, reads, apiUnreg, apiBcast, apiCalls, faults, unregs>>

\* writePump: the ticker fires and the ping cannot be written (a ping that is
\* written changes nothing); the deferred function closes the connection.
WPPingFail(c) ==
  /\ wp[c] = "wait"
  /\ wp' = [wp EXCEPT ![c] = "done"]
  /\ connClosed' = [connClosed EXCEPT ![c] = TRUE]
  /\ UNCHANGED <<username, stage, send, rp, rpMsg, wire, clients, db, clock,
                 enq, reads, apiUnreg, apiBcast, apiCalls, faults, unregs>>

Next ==
  \/ \E c \in Conns, query \in 0..NumNames : ServeWs(c, query)
  \/ \E c \in Conns : HubRegister(c)
  \/ \E c \in Conns, input \in ClientInputs : RPRead(c, input)
  \/ \E c \in Conns : RPReadErr(c)
  \/ \E c \in Conns : HubBroadcast(c)
  \/ \E c \in Conns : HubUnregister(c)
  \/ \E c \in Conns : RPClose(c)
  \/ \E c \in Conns, netOk \in BOOLEAN : WPWrite(c, netOk)
  \/ \E c \in Conns : WPPingFail(c)

Spec == Init /\ [][Next]_vars

\* ------------------------------------------- the Hub's exported interface
\* Hub.Register, Hub.Unregister and Hub.Broadcast are exported: HubSpec drives
\* the Hub through them with calls no pump of this program makes (a second
\* Unregister of one client, payloads no readPump built), while the accepted
\* clients' connections are idle: their readPumps wait, their writePumps write.
ApiPayloads ==
  { Garbage,
    Payload("alt", Message("chat", Guest, <<0, "hi">>, 0, <<>>, "")),
    Payload("json", Message("user_list", 0, NoContent, 0, <<Guest>>, "")) }

\* An outside caller enters Hub.Unregister(c) and waits for the Hub.
ApiUnregister(c) ==
  /\ apiCalls < MaxApiCalls
  /\ stage[c] = "served"
  /\ c \notin apiUnreg
  /\ apiUnreg' = apiUnreg \cup {c}
  /\ apiCalls' = apiCalls + 1
  /\ UNCHANGED <<username, stage, send, connClosed, rp, rpMsg, wp, wire, clients,
                 db, clock, enq, reads, apiBcast, faults, unregs>>

\* An outside caller enters Hub.Broadcast(message) and waits for the Hub.
ApiBroadcast(message) ==
  /\ apiCalls < MaxApiCalls
  /\ message \notin apiBcast
  /\ apiBcast' = apiBcast \cup {message}
  /\ apiCalls' = apiCalls + 1
  /\ UNCHANGED <<username, stage, send, connClosed, rp, rpMsg, wp, wire, clients,
                 db, clock, enq, reads, apiUnreg, faults, unregs>>

\* The Hub receives from h.unregister what an outside caller sent.
HubUnregisterApi(c) ==
  /\ c \in apiUnreg
  /\ HubReady
  /\ \E order \in UNION {Orders(S) : S \in SUBSET Names}, saveOk \in BOOLEAN :
       /\ HandleUnregister(c, order, saveOk)
       /\ MayFail(<<saveOk>>)
  /\ apiUnreg' = apiUnreg \ {c}
  /\ unregs' = [unregs EXCEPT ![c] = @ + 1]
  /\ UNCHANGED <<username, stage, connClosed, rp, rpMsg, wp, wire, reads,
                 apiBcast, apiCalls>>

\* The Hub receives from h.broadcast what an outside caller sent.
HubBroadcastApi(message) ==
  /\ message \in apiBcast
  /\ HubReady
  /\ \E saveOk \in BOOLEAN :
       /\ HandleBroadcast(message, saveOk)
       /\ MayFail(<<saveOk>>)
  /\ apiBcast' = apiBcast \ {message}
  /\ UNCHANGED <<username, stage, connClosed, rp, rpMsg, wp, wire, reads,
                 apiUnreg, apiCalls, unregs>>

HubNext ==
  \/ \E c \in Conns, query \in 0..NumNames : ServeWs(c, query)
  \/ \E c \in Conns : HubRegister(c)
  \/ \E c \in Conns : ApiUnregister(c)
  \/ \E message \in ApiPayloads : ApiBroadcast(message)
  \/ \E c \in Conns : HubUnregisterApi(c)
  \/ \E message \in ApiPayloads : HubBroadcastApi(message)
  \/ \E c \in Conns, netOk \in BOOLEAN : WPWrite(c, netOk)

HubSpec == Init /\ [][HubNext]_vars

\* ----------------------------------------------------------------- claims
Accepted(c) == rp[c] # "off"
Rejected(c) == stage[c] = "served" /\ rp[c] = "off"
\* The step in which the Hub handles the register event of c.
RegisterStep(c) == stage[c] = "registering" /\ stage'[c] = "served"
ErrorPayload == Marshal(ErrorMessage)
\* The registry's entry under the identity of c points at c.
Holds(c) == username[c] \in Names /\ clients[username[c]] = c
IsUserList(p, users) == p = Marshal(UserListMessage(users))

\* C1: when the Hub handles register(c) and c's identity is in the registry,
\* exactly one error Message goes on c's queue and on nobody else's, c's
\* connection is closed, c is not added, the registry keeps pointing at the
\* original client, and neither a join nor a user_list is sent or stored.
C1_ConflictRejected ==
  [][\A c \in Conns :
       (RegisterStep(c) /\ clients[username[c]] # 0) =>
         /\ send' = [send EXCEPT ![c] = <<ErrorPayload>>]
         /\ enq' = [enq EXCEPT ![c] = <<ErrorPayload>>]
         /\ connClosed'[c]
         /\ clients' = clients
         /\ clients[username[c]] # c
         /\ db' = db]_vars

C1_Witness ==
  \E c \in Conns :
    /\ Rejected(c)
    /\ send[c] = <<ErrorPayload>>
    /\ connClosed[c]
    /\ \E d \in Conns \ {c} : username[d] = username[c] /\ Holds(d)

\* C2 (as claimed): a rejected client's error Message has been transmitted on
\* its connection by the time the connection is closed.
C2_ErrorTransmittedBeforeClose ==
  \A c \in Conns :
    (Rejected(c) /\ connClosed[c]) => ErrorPayload \in Range(wire[c])

\* C3: the registry is exactly the clients that were accepted and whose
\* unregister the Hub has not handled yet, under their identities: as many
\* entries as such clients, no identity shared, and an entry goes away only
\* in the step that handles the unregister of the client it points to.
Live(c) == Accepted(c) /\ unregs[c] = 0
C4_UserListSorted ==
  [][clients' # clients =>
       \A c \in Registered(clients') :
         /\ Len(enq'[c]) > Len(enq[c])
         /\ LET m == Last(enq'[c]).msg IN
              /\ Last(enq'[c]) = Marshal(UserListMessage(m.users))
              /\ m.type = "user_list"
              /\ Range(m.users) = Online(clients')
              /\ \A i, j \in DOMAIN m.users : i < j => m.users[i] < m.users[j]]_vars

\* register 2 ("bob"), register 1 ("ann"), unregister 2: the list is <<1>>.
C4_Witness ==
  \E c, d \in Conns :
    /\ username[c] = 2 /\ username[d] = 1
    /\ \E i, j \in DOMAIN enq[c] :
         i < j /\ IsUserList(enq[c][i], <<2>>) /\ IsUserList(enq[c][j], <<1, 2>>)
    /\ unregs[c] = 1
    /\ enq[d] # <<>> /\ IsUserList(Last(enq[d]), <<1>>)

\* The step in which the Hub handles the broadcast event an outside caller sent.
BroadcastApiStep(m) == m \in apiBcast /\ m \notin apiBcast'

\* C5: when the Hub handles broadcast(m) for a chat Message, every client in
\* the registry at that moment whose queue has room, the one named as sender
\* included, gets exactly the bytes m at the end of its queue, and no other
\* queue changes.
C5_BroadcastIdentical ==
  [][\A m \in ApiPayloads :
       (BroadcastApiStep(m) /\ UnmarshalOk(m) /\ Unmarshal(m).type = "chat") =>
         \A c \in Conns :
           send'[c] = IF c \in Registered(clients) /\ Len(send[c]) < SendCap
                      THEN Append(send[c], m)
                      ELSE send[c]]_vars

\* Two registered clients, the payload's sender among them, hold the same
\* bytes of a chat payload that is not in json.Marshal's form.
C5_Witness ==
  \E m \in ApiPayloads :
    /\ m.form = "alt" /\ m.msg.type = "chat"
    /\ Cardinality(Registered(clients)) >= 2
    /\ clients[m.msg.username] # 0
    /\ \A c \in Registered(clients) : m \in Range(send[c])

\* C6 (as claimed): an undecodable broadcast payload is not stored and is
\* still passed unchanged to SendMessage of every registered client.
C6_UndecodableForwarded ==
  [][\A m \in ApiPayloads :
       (BroadcastApiStep(m) /\ ~UnmarshalOk(m)) =>
         /\ db' = db
         /\ \A c \in Registered(clients) : send'[c] = SendMessage(send[c], m)]_vars

\* C7 (as claimed): on an accepted register(c) the join Message is stored
\* (when the store works), is put on the queue of every other registered
\* client that has room, and is not put on c's own queue.
C7_JoinToOthersOnly ==
  [][\A c \in Conns :
       (RegisterStep(c) /\ clients[username[c]] = 0) =>
         LET joinMsg == JoinMessage(username[c], clock) IN
           /\ faults' = faults => db' = SaveMessage(db, joinMsg, TRUE)
           /\ \A d \in Registered(clients) :
                Len(send[d]) < SendCap => send'[d][Len(send[d]) + 1] = Marshal(joinMsg)
           /\ Marshal(joinMsg) \notin Range(send'[c])]_vars

\* C8: an unregister event for a client whose identity is not in the registry
\* (a second one for a removed client) leaves registry, store, clock and every
\* queue as they are: nothing more is sent.
C8_SecondUnregisterNoOp ==
  [][\A c \in Conns :
       (c \in apiUnreg /\ c \notin apiUnreg' /\ clients[username[c]] = 0) =>
         UNCHANGED <<clients, db, clock, send, enq>>]_vars

\* The only client with its identity has had two unregister events handled.
C8_Witness ==
  \E c \in Conns :
    /\ unregs[c] = 2
    /\ Accepted(c)
    /\ \A d \in Conns \ {c} : username[d] # username[c]
    /\ clients[username[c]] = 0

\* The program while the store and the transport's writes do not fail.
ReliableNext == Next /\ faults' = faults

\* The Go scheduler: a goroutine waiting to send on one of the Hub's channels
\* is received from once the Hub is back at its select.
FairSpec ==
  /\ Init /\ [][ReliableNext]_vars
  /\ \A c \in Conns : WF_vars(HubRegister(c) \/ HubUnregister(c) \/ HubBroadcast(c))

\* c's goroutine waits in Hub.Register, Hub.Broadcast or Hub.Unregister.
Waiting(c) == stage[c] = "registering" \/ rp[c] \in {"bcast", "unreg"}

\* C9: whatever the writePumps do (one may never take a payload, its queue
\* full), no goroutine waits in Register, Unregister or Broadcast for ever
\* (the Hub's receive is all that ends the wait), and a broadcast reaches every registered client with room in its
\* own queue.
C9_HubNeverStalls ==
  /\ \A c \in Conns : []<>(~Waiting(c))
  /\ [][\A c \in Conns :
          (rp[c] = "bcast" /\ rp'[c] = "read") =>
            \A d \in Registered(clients) :
              Len(send[d]) < SendCap => send'[d] = Append(send[d], rpMsg[c])]_vars

\* A client that never wrote anything has a full queue and lost a payload,
\* and a chat broadcast handled after that is on another client's queue.
C9_Witness ==
  \E s, d \in Conns :
    /\ s # d
    /\ wp[s] = "wait" /\ wire[s] = <<>>
    /\ Len(send[s]) = SendCap /\ Len(enq[s]) > SendCap
    /\ Last(enq[s]).msg.type = "chat"
    /\ Last(enq[s]) \notin Range(send[s])
    /\ Last(enq[s]) \in Range(send[d])

\* C10: what writePump wrote to a client's connection is, in order and with
\* no payload repeated, a subsequence of what the Hub passed to SendMessage
\* for that client.
C10_OrderPreserved == \A c \in Conns : IsSubseq(wire[c], enq[c])

\* A join written before a later chat, with a payload of the client lost.
C10_Witness ==
  \E c \in Conns :
    /\ \E i, j \in DOMAIN wire[c] :
         i < j /\ wire[c][i].msg.type = "join" /\ wire[c][j].msg.type = "chat"
    /\ Len(enq[c]) > Len(wire[c]) + Len(send[c])

\* The step in which readPump of c enters Hub.Broadcast with a Message.
HandOverStep(c) == rp[c] = "read" /\ rp'[c] = "bcast"

\* C11: every Message readPump of c hands to Hub.Broadcast is json.Marshal's
\* text of a Message of kind chat whose sender is c's own identity and whose
\* timestamp is the server's, whatever the client wrote; and every payload
\* the Hub fans out for a broadcast is such a Message of a client that is
\* or was accepted, so join, leave, user_list and error come from the Hub alone.
C11_InboundOverwritten ==
  /\ [](\A c \in Conns :
         rp[c] = "bcast" =>
           /\ rpMsg[c].form = "json"
           /\ rpMsg[c].msg.type = "chat"
           /\ rpMsg[c].msg.username = username[c])
  /\ [][\A c \in Conns : HandOverStep(c) => rpMsg'[c].msg.timestamp = clock]_vars
  /\ [][\A c \in Conns :
          (rp[c] = "bcast" /\ rp'[c] = "read") =>
            \A d \in Conns : \A i \in (Len(enq[d]) + 1)..Len(enq'[d]) :
              /\ enq'[d][i].msg.type = "chat"
              /\ enq'[d][i].msg.username = username[c]]_vars

\* A client bound to identity 1 wrote a unit of kind join under identity
\* NumNames with an error text; another client has it on its queue as a chat
\* of identity 1.
C11_Witness ==
  \E c, d \in Conns :
    /\ c # d
    /\ username[c] = Guest /\ NumNames # Guest
    /\ \E p \in Range(send[d]) :
         /\ p.msg.type = "chat" /\ p.msg.username = Guest
         /\ p.msg.content = <<0, "hi">> /\ p.msg.error = "boo"

\* The step in which the Hub accepts the registration of c.
AcceptStep(c) == RegisterStep(c) /\ clients[username[c]] = 0

RECURSIVE InsertByInstant(_, _)
InsertByInstant(s, r) ==
  IF s = <<>> THEN <<r>>
  ELSE IF Parse(r.timestamp) < Parse(Head(s).timestamp) THEN <<r>> \o s
  ELSE <<Head(s)>> \o InsertByInstant(Tail(s), r)

\* The rows in the order of the instants they were stamped with, oldest first.
RECURSIVE Chronological(_)
Chronological(rows) ==
  IF rows = <<>> THEN <<>>
  ELSE InsertByInstant(Chronological(SubSeq(rows, 1, Len(rows) - 1)), Last(rows))

\* The limit most recent rows, oldest first.
MostRecent(rows, limit) ==
  LET asc == Chronological(rows)
      n == IF Len(asc) < limit THEN Len(asc) ELSE limit
  IN SubSeq(asc, Len(asc) - n + 1, Len(asc))

\* C12 (as claimed): the store holds rows of kind chat, join and leave only,
\* and what an accepted client is sent first (while the store works) is the
\* HistLimit most recent rows, oldest first.
C12_HistoryMostRecentAscending ==
  /\ [](\A i \in DOMAIN db : Persistable(db[i].type))
  /\ [][\A c \in Conns :
          (AcceptStep(c) /\ faults' = faults) =>
            LET recent == MostRecent(db, HistLimit) IN
              /\ Len(enq'[c]) = Len(recent) + 2
              /\ \A i \in DOMAIN recent : enq'[c][i] = Marshal(RowMessage(recent[i]))]_vars

\* What the Hub passed to SendMessage of client c in this step.
Enqueued(c) == SubSeq(enq'[c], Len(enq[c]) + 1, Len(enq'[c]))

\* C13: no queue ever holds more than SendCap payloads; and in a step in
\* which the Hub calls SendMessage on a client whose queue is full, that
\* queue stays exactly as it is, the client stays in the registry, every
\* other client's queue gets all the Hub sends it in that step, and the
\* goroutine that handed the event to the Hub goes on.
C13_FullQueueDropsNewest ==
  /\ [](\A c \in Conns : Len(send[c]) <= SendCap)
  /\ [][\A c \in Conns :
          (Len(send[c]) = SendCap /\ Enqueued(c) # <<>>) =>
            /\ send'[c] = send[c]
            /\ Holds(c) /\ clients'[username[c]] = c
            /\ \A d \in Conns \ {c} : send'[d] = SendAll(send[d], Enqueued(d))
            /\ \E s \in Conns : Waiting(s) /\ ~Waiting(s)']_vars

\* A registered client that wrote nothing holds SendCap payloads, the one
\* payload sent to it after that is gone, and another client got that payload.
C13_Witness ==
  \E c, d \in Conns :
    /\ c # d
    /\ Holds(c) /\ wire[c] = <<>>
    /\ Len(send[c]) = SendCap
    /\ Len(enq[c]) = SendCap + 1
    /\ send[c] = SubSeq(enq[c], 1, SendCap)
    /\ Last(enq[c]) \in Range(send[d]) \cup Range(wire[d])

\* A pump of c is or was running.
PumpStarted(c) == rp[c] # "off" \/ wp[c] # "off"

\* C14: a pump of a client starts only in the step in which the Hub accepts
\* that client's registration and has put it into the registry, both pumps
\* start together there, and a client that was sent the error Message of a
\* rejected registration never has a pump.
C14_PumpsOnlyAfterAccept ==
  /\ [](\A c \in Conns :
         /\ PumpStarted(c) => (stage[c] = "served" /\ rp[c] # "off" /\ wp[c] # "off")
         /\ ErrorPayload \in Range(enq[c]) => ~PumpStarted(c))
  /\ [][\A c \in Conns :
          (~PumpStarted(c) /\ PumpStarted(c)') =>
            /\ AcceptStep(c)
            /\ clients'[username[c]] = c]_vars

\* One client was rejected and has no pump, its connection closed, while the
\* holder of its identity has both pumps running and has written payloads.
C14_Witness ==
  \E c, d \in Conns :
    /\ c # d
    /\ ErrorPayload \in Range(enq[c]) /\ ~PumpStarted(c) /\ connClosed[c]
    /\ stage[c] = "served"
    /\ username[d] = username[c] /\ Holds(d)
    /\ rp[d] = "read" /\ wp[d] = "wait" /\ wire[d] # <<>>

\* A step of the goroutines of c that the scheduler and the connection make
\* sure of: the Hub's receive of what c waits to hand over, readPump's
\* deferred Close, the error ReadMessage returns on a closed connection, and
\* the failure a writePump meets on a closed connection, on the next payload
\* or on the next ping.
SureStep(c) ==
  \/ HubRegister(c) \/ HubUnregister(c) \/ HubBroadcast(c)
  \/ RPClose(c)
  \/ connClosed[c] /\ RPReadErr(c)
  \/ connClosed[c] /\ (WPPingFail(c) \/ WPWrite(c, TRUE))

PumpFairSpec ==
  /\ Init /\ [][ReliableNext]_vars
  /\ \A c \in Conns : WF_vars(SureStep(c))

\* readPump of c is in its loop.
InLoop(c) == rp[c] \in {"read", "bcast"}

\* C15: readPump leaves its loop only into the deferred function, whose
\* first step is Hub.Unregister(c); it gets to c.conn.Close() only in the
\* step after the Hub handled that unregister, and ends with the connection
\* closed; and a readPump that left its loop always gets to the end.
C15_UnregisterThenClose ==
  /\ [][\A c \in Conns :
          /\ (InLoop(c) /\ ~InLoop(c)') => rp'[c] = "unreg"
          /\ (rp[c] = "unreg" /\ rp'[c] # "unreg") =>
               (rp'[c] = "close" /\ unregs'[c] = unregs[c] + 1 /\ connClosed'[c] = connClosed[c])
          /\ (rp[c] = "close" /\ rp'[c] # "close") => (rp'[c] = "done" /\ connClosed'[c])
          /\ (rp[c] # "done" /\ rp'[c] = "done") => (rp[c] = "close" /\ unregs[c] >= 1)]_vars
  /\ \A c \in Conns : (rp[c] = "unreg") ~> (rp[c] = "done" /\ connClosed[c] /\ unregs[c] >= 1)

\* readPump of c has ended after one unregister, the connection is closed
\* and writePump, which did not close it, still waits.
C15_Witness ==
  \E c \in Conns :
    /\ rp[c] = "done" /\ unregs[c] = 1 /\ connClosed[c]
    /\ wp[c] = "wait" /\ ~Holds(c)

\* The user_list payload for the registry reg.
UserListOf(reg) ==
  Marshal(UserListMessage(SortStrings(CHOOSE o \in Orders(Online(reg)) : TRUE)))

\* The steps in which the Hub handles the unregister and the broadcast of c.
UnregisterStep(c) == rp[c] = "unreg" /\ rp'[c] = "close"
BroadcastStep(c) == rp[c] = "bcast" /\ rp'[c] = "read"

\* C16: in a step of the Hub in which the store fails (the failure count
\* goes up), the registry changes and the payloads passed to SendMessage are
\* those of a step without failure: join and user_list to every registered
\* client on register, with the new client inserted and its pumps started,
\* leave and user_list to the remaining ones on unregister, the payload to
\* every registered client on broadcast; a failed append leaves the store as
\* it was, and when the fetch on register failed the new client gets no
\* history before its join and user_list.
C16_PersistenceFailOpen ==
  [][\A c \in Conns :
       /\ (AcceptStep(c) /\ faults' # faults) =>
            LET reg == [clients EXCEPT ![username[c]] = c]
                live == <<Marshal(JoinMessage(username[c], clock)), UserListOf(reg)>>
                history == GetMessages(db, HistLimit)
                replay == [i \in DOMAIN history |-> Marshal(history[i])]
            IN /\ clients' = reg
               /\ PumpStarted(c)'
               /\ \A d \in Registered(clients) : Enqueued(d) = live
               /\ Enqueued(c) \in {live, replay \o live}
               /\ db' \in {db, SaveMessage(db, JoinMessage(username[c], clock), TRUE)}
               /\ db' # db => Enqueued(c) = live
       /\ (UnregisterStep(c) /\ faults' # faults) =>
            LET reg == [clients EXCEPT ![username[c]] = 0]
            IN /\ clients' = reg
               /\ db' = db
               /\ \A d \in Conns :
                    Enqueued(d) = IF d \in Registered(reg)
                                  THEN <<Marshal(LeaveMessage(username[c], clock)), UserListOf(reg)>>
                                  ELSE <<>>
       /\ (BroadcastStep(c) /\ faults' # faults) =>
            /\ clients' = clients
            /\ db' = db
            /\ \A d \in Conns :
                 Enqueued(d) = IF d \in Registered(clients) THEN <<rpMsg[c]>> ELSE <<>>]_vars

\* Two registered clients; one holds a chat of the other on its queue, and
\* the store, whose append failed, holds no chat.
C16_Witness ==
  \E c, d \in Conns :
    /\ c # d /\ Holds(c) /\ Holds(d) /\ faults >= 1
    /\ \E p \in Range(enq[d]) : p.msg.type = "chat" /\ p.msg.username = username[c]
    /\ \A i \in DOMAIN db : db[i].type # "chat"

\* C17: the step in which the Hub handles unregister(c) for a registered c
\* takes c's entry out of the registry and nothing else, appends the leave
\* Message of c to the store (when the store works), passes that leave
\* Message and then the user_list of the remaining identities to SendMessage
\* of every remaining client, and passes nothing to c, whose queue stays.
C17_UnregisterBroadcastsLeave ==
  [][\A c \in Conns :
       (UnregisterStep(c) /\ Holds(c)) =>
         LET leaveMsg == LeaveMessage(username[c], clock) IN
           /\ clients' = [clients EXCEPT ![username[c]] = 0]
           /\ faults' = faults => db' = SaveMessage(db, leaveMsg, TRUE)
           /\ \A d \in Registered(clients) \ {c} :
                /\ Enqueued(d) = <<Marshal(leaveMsg), UserListOf(clients')>>
                /\ send'[d] = SendAll(send[d], Enqueued(d))
           /\ Enqueued(c) = <<>>
           /\ send'[c] = send[c]
           /\ \A d \in Conns \ Registered(clients) : Enqueued(d) = <<>>]_vars

\* c is gone after one unregister; the last two payloads sent to d, which is
\* registered, are the leave of c and the user_list naming d alone; the store
\* ends with the leave of c, and nothing was sent to c after its own join
\* and user_list.
C17_Witness ==
  \E c, d \in Conns :
    /\ c # d /\ unregs[c] = 1 /\ ~Holds(c) /\ Holds(d)
    /\ Len(enq[d]) >= 2
    /\ enq[d][Len(enq[d]) - 1].msg.type = "leave"
    /\ enq[d][Len(enq[d]) - 1].msg.username = username[c]
    /\ Last(enq[d]) = Marshal(UserListMessage(<<username[d]>>))
    /\ db # <<>> /\ Last(db).type = "leave" /\ Last(db).username = username[c]
    /\ Last(enq[c]).msg.type = "user_list"

\* C18 (as claimed): in the step that accepts c nothing was sent to c before;
\* c is sent the replay, whose Messages are rows of the store, oldest first,
\* then (after the join) the user_list of the registry that now includes c,
\* which is also the last payload sent to every other registered client.
C18_ReplayOldestFirstThenUserList ==
  [][\A c \in Conns :
       AcceptStep(c) =>
         LET sent == Enqueued(c)
             n == Len(sent) - 2
         IN /\ enq[c] = <<>>
            /\ n >= 0 /\ n <= HistLimit
            /\ \A i \in 1..n : \E k \in DOMAIN db : sent[i] = Marshal(RowMessage(db[k]))
            /\ \A i, j \in 1..n : i < j => sent[i].msg.timestamp < sent[j].msg.timestamp
            /\ sent[n + 2] = UserListOf(clients')
            /\ username[c] \in Range(sent[n + 2].msg.users)
            /\ \A d \in Registered(clients') :
                 Enqueued(d) # <<>> /\ Last(Enqueued(d)) = UserListOf(clients')]_vars

\* A pump of c has left its loop.
PumpEnded(c) == wp[c] = "done" \/ rp[c] \in {"unreg", "close", "done"}

\* The Hub has handled an unregister of c and c is not in the registry.
Removed(c) == unregs[c] >= 1 /\ ~Holds(c)

\* C19: once a pump of an accepted client has left its loop, whichever it is,
\* the Hub eventually handles the unregister of that client (a pump that
\* left its loop never returns to it, so "ended and not removed" must not
\* last for ever); and the step that does finds the client registered,
\* removes it and passes its leave Message to SendMessage of every client
\* that remains.
C19_PumpEndLeadsToLeave ==
  /\ \A c \in Conns : []<>(PumpEnded(c) => Removed(c))
  /\ [][\A c \in Conns : PumpEnded(c) => PumpEnded(c)']_vars
  /\ [][\A c \in Conns :
          UnregisterStep(c) =>
            /\ Holds(c) /\ Removed(c)'
            /\ \A d \in Registered(clients') :
                 Marshal(LeaveMessage(username[c], clock)) \in Range(Enqueued(d))]_vars

\* writePump of c ended first, on a ping it could not write, while readPump
\* was still reading; c has been removed since, and the client that remains
\* was sent the leave.
C19_Witness ==
  \E c, d \in Conns :
    /\ c # d /\ Holds(d) /\ Removed(c)
    /\ wp[c] = "done" /\ rp[c] = "close"
    /\ Len(enq[c]) = Len(send[c]) + Len(wire[c])
    /\ \E p \in Range(enq[d]) : p.msg.type = "leave" /\ p.msg.username = username[c]

\* The close message writePump writes when it finds c.send closed.
CloseSignal == Payload("close", ZeroMessage)

\* C20 (as claimed): when readPump of a client has ended, its writePump ends
\* by finding the queue closed and writing the close message, so with both
\* pumps ended the close message is the last thing written on the connection.
C20_TeardownSendsCloseSignal ==
  \A c \in Conns :
    (rp[c] = "done" /\ wp[c] = "done") =>
      (wire[c] # <<>> /\ Last(wire[c]) = CloseSignal)

\* The fields a Message of its kind has no use for are empty.
FieldsOfKindOnly(msg) ==
  /\ msg.type \in {"chat", "join", "leave"} => (msg.users = <<>> /\ msg.error = "")
  /\ msg.type = "user_list" =>
       (msg.username = 0 /\ msg.content = NoContent /\ msg.timestamp = 0 /\ msg.error = "")
  /\ msg.type = "error" =>
       (msg.username = 0 /\ msg.content = NoContent /\ msg.timestamp = 0 /\ msg.users = <<>>)

\* C21 (as claimed): the Message readPump hands to Hub.Broadcast, and every
\* Message the Hub passes to SendMessage, has the fields of its kind and
\* no other: a chat has no identity list and no error text, whatever the
\* client wrote.
C21_FieldsOfKindOnly ==
  /\ \A c \in Conns : rp[c] = "bcast" => FieldsOfKindOnly(rpMsg[c].msg)
  /\ \A c \in Conns : \A i \in DOMAIN enq[c] : FieldsOfKindOnly(enq[c][i].msg)

\* The step in which a readPump got a unit from its connection.
ReadStep == reads' # reads

\* C22: a step in which a readPump reads a unit either hands the Hub the
\* Message made of a decodable unit, or, the unit being undecodable, changes
\* nothing at all but the count of units read: no goroutine enters a call of
\* the Hub, no queue and no row is added, the registry and the connection
\* are as before and the readPump is back at ReadMessage.
C22_UndecodableDiscarded ==
  [][ReadStep =>
       \/ \E c \in Conns, input \in ClientInputs :
            /\ input.form \in {"json", "alt"}
            /\ HandOverStep(c)
            /\ rpMsg'[c] = ParsedMessage(input, username[c], clock)
       \/ UNCHANGED <<username, stage, send, connClosed, rp, rpMsg, wp, wire,
                      clients, db, clock, enq, apiUnreg, apiBcast, apiCalls,
                      faults, unregs>>]_vars

\* The one unit read in the run was discarded: no readPump ever went to the
\* Hub with a Message, no chat is stored or queued, and the clients, both
\* registered, read on with their connections open.
C22_Witness ==
  /\ reads = MaxReads
  /\ \A c \in Conns :
       /\ Holds(c) /\ rp[c] = "read" /\ ~connClosed[c]
       /\ rpMsg[c] = Garbage
       /\ \A i \in DOMAIN enq[c] : enq[c][i].msg.type # "chat"
  /\ \A i \in DOMAIN db : db[i].type # "chat"
  /\ clock = NumConns + 1


\* The goroutines whose call of the Hub (Register, Broadcast, Unregister)
\* the Hub loop received and handled in this step.
HubEvents == {s \in Conns : Waiting(s) /\ ~Waiting(s)'}

\* A step of serveWs, of a readPump or of a writePump: a connection arrives,
\* a unit is read, a readPump enters Broadcast or Unregister or closes its
\* connection, a writePump transmits or ends.
ClientStep ==
  \/ ReadStep
  \/ \E c \in Conns :
       \/ stage[c] = "idle" /\ stage'[c] = "registering"
       \/ HandOverStep(c)
       \/ rp[c] = "read" /\ rp'[c] = "unreg"
       \/ rp[c] = "close" /\ rp'[c] = "done"
       \/ wp[c] = "wait" /\ wp'[c] = "done"
       \/ wire'[c] # wire[c]
       \/ Len(send'[c]) < Len(send[c])

\* C23: the Hub loop handles at most one event in a step; a step that changes
\* the registry, or that fans a payload out over it (a payload is passed to
\* some SendMessage), handles exactly one event; and a step of serveWs or of
\* a pump handles none and leaves the registry and every fan-out as they were.
C23_RegistryOnlyInHubLoop ==
  [][/\ Cardinality(HubEvents) <= 1
     /\ (clients' # clients \/ enq' # enq) => Cardinality(HubEvents) = 1
     /\ ClientStep => (clients' = clients /\ enq' = enq /\ HubEvents = {})]_vars

\* The registry went through an insertion and a removal while pumps were at
\* work: one client is registered and has had payloads transmitted, another
\* was registered, has left through its one unregister event and has closed.
C23_Witness ==
  \E c, d \in Conns :
    /\ Holds(c) /\ wire[c] # <<>>
    /\ rp[d] = "done" /\ unregs[d] = 1 /\ ~Holds(d)
    /\ \E i \in DOMAIN enq[c] : enq[c][i].msg.type = "leave"


\* The notices of kind about the identity name among the payloads ps.
NoticeTimes(ps, kind, name) ==
  {ps[i].msg.timestamp :
     i \in {j \in DOMAIN ps : ps[j].msg.type = kind /\ ps[j].msg.username = name}}

\* C24: a readPump enters Broadcast only with its client accepted, in the
\* registry under its identity and with no unregister event of its own
\* handled; and when the Hub fans the chat out, the sender's identity still
\* maps to the sender, the sender's join went out before (the Hub passed it
\* to the sender's own SendMessage too) with an earlier time than the chat's,
\* every leave of that identity any client was passed is older than that
\* join, and every client in the registry is passed the chat.
C24_ChatBetweenJoinAndLeave ==
  [][\A c \in Conns :
       /\ HandOverStep(c) =>
            /\ stage[c] = "served" /\ Holds(c) /\ unregs[c] = 0
            /\ Unmarshal(rpMsg'[c]).username = username[c]
       /\ BroadcastStep(c) =>
            LET chat == Unmarshal(rpMsg[c])
                joins == NoticeTimes(enq[c], "join", username[c])
            IN /\ Holds(c) /\ unregs[c] = 0
               /\ chat.type = "chat" /\ chat.username = username[c]
               /\ joins # {}
               /\ \E t \in joins :
                    /\ t < chat.timestamp
                    /\ \A r \in Conns :
                         \A u \in NoticeTimes(enq[r], "leave", username[c]) : u < t
               /\ \A r \in Conns :
                    Enqueued(r) = IF Holds(r) THEN <<rpMsg[c]>> ELSE <<>>]_vars

\* A receiver was passed a sender's join, then the sender's chat, then the
\* sender's leave.
C24_Witness ==
  \E c, r \in Conns :
    /\ c # r
    /\ \E i, j, k \in DOMAIN enq[r] :
         /\ i < j /\ j < k
         /\ enq[r][i] = Marshal(JoinMessage(username[c], enq[r][i].msg.timestamp))
         /\ enq[r][j].msg.type = "chat" /\ enq[r][j].msg.username = username[c]
         /\ enq[r][k] = Marshal(LeaveMessage(username[c], enq[r][k].msg.timestamp))
         /\ enq[r][i].msg.timestamp < enq[r][j].msg.timestamp
         /\ enq[r][j].msg.timestamp < enq[r][k].msg.timestamp


\* C25: in the step in which the Hub accepts a client, the client's queue is
\* empty and was never passed anything, the Hub passes it at most HistLimit
\* history payloads, then the join and the user list, HistLimit + 2 payloads
\* fit the queue, and all of them are in the queue after the step: none was
\* dropped.
C25_ReplayFitsQueue ==
  [][\A c \in Conns :
       AcceptStep(c) =>
         LET sent == Enqueued(c)
             n == Len(sent)
         IN /\ send[c] = <<>> /\ enq[c] = <<>>
            /\ HistLimit + 2 <= SendCap
            /\ 2 <= n /\ n <= HistLimit + 2
            /\ sent[n - 1] = Marshal(JoinMessage(username[c], clock))
            /\ Unmarshal(sent[n]).type = "user_list"
            /\ \A i \in 1..(n - 2) : Unmarshal(sent[i]).type # "user_list"
            /\ send'[c] = sent]_vars

\* A client was accepted with a full replay: HistLimit history payloads, the
\* join and the user list are all in its queue, none transmitted yet.
C25_Witness ==
  \E c \in Conns :
    /\ Holds(c) /\ wire[c] = <<>>
    /\ Len(send[c]) = HistLimit + 2
    /\ send[c] = enq[c]
    /\ Unmarshal(send[c][HistLimit + 1]).type = "join"
    /\ Unmarshal(send[c][HistLimit + 1]).username = username[c]
    /\ Unmarshal(send[c][HistLimit + 2]).type = "user_list"
    /\ Len(db) > HistLimit + 1


\* The step in which a pump of c is started.
PumpStart(c) ==
  \/ rp[c] = "off" /\ rp'[c] # "off"
  \/ wp[c] = "off" /\ wp'[c] # "off"

====
